---- MODULE Spec2Model ----
(***************************************************************************)
(* A model of the applications module of djangogirls:                      *)
(*   applications/models.py  Form.application_open, Application's score    *)
(*                           statistics, Email.send                        *)
(*   applications/forms.py   ApplicationForm.__init__ and .save            *)
(*                                                                         *)
(* Python's None is the empty tuple and a value v that may be None is the  *)
(* one-element tuple <<v>>, so that None, "" and 0 stay distinct and the   *)
(* truthiness tests of the code can be stated as the code evaluates them.  *)
(***************************************************************************)
EXTENDS Integers, Sequences, FiniteSets, TLC

VARIABLES
    open_from,      \* Form.open_from: None or a time
    open_until,     \* Form.open_until: None or a time
    now,            \* the clock read by timezone.now()
    scores,         \* Score rows of one Application: user -> None or a score
    applications,   \* the Application table, in primary-key order
    event_email,    \* form.page.event.email: None or a string
    email,          \* the Email record that send() works on
    deliveries,     \* the transport's log of the msg.send() calls of the last operation
    raised,         \* whether the last operation ended in an exception
    op,             \* the last operation: "send" (a first send()), "resend"
                    \* (send() on an Email already sent) or another one
    questions,      \* the Question rows of the form, in primary-key order
    form_fields,    \* ApplicationForm.fields: None while no form object exists
    form_data,      \* ApplicationForm.data: None for an unbound form
    cleaned_data,   \* ApplicationForm.cleaned_data: None while the attribute is missing
    answers         \* the Answer rows: per application, question pk -> answer

openVars == <<open_from, open_until>>
mailVars == <<applications, event_email, email, deliveries, raised, op>>
formVars == <<questions, form_fields, form_data, cleaned_data, answers>>
vars == <<open_from, open_until, now, scores, applications, event_email, email,
          deliveries, raised, op, questions, form_fields, form_data, cleaned_data,
          answers>>

None == <<>>
Some(v) == <<v>>

----------------------------------------------------------------------------
(* Bounds.                                                                 *)

MaxTime == 5
MaxUsers == 5

Times == 1..MaxTime
Users == 1..MaxUsers

----------------------------------------------------------------------------
(* The records shared by the mail and the form operations.                 *)

EmailForm == 1          \* the Form the Email (and the submission) belongs to
OtherForm == 2          \* another event's Form
Forms == {EmailForm, OtherForm}

APPLICATION_STATES == {"submitted", "accepted", "rejected", "waitlisted"}

PageUrl == "rome"
PageTitle == "Django Girls Rome"

\* A string is truthy when it is neither None nor empty.
TruthyStr(s) == s # None /\ s[1] # ""

\* The Email as created by EmailForm: nothing sent yet.
NewEmail(group) ==
    [form |-> EmailForm, recipients_group |-> group, number_of_recipients |-> 0,
     successfuly_sent |-> None, failed_to_sent |-> None, sent_from |-> "",
     sent |-> None]

\* No questions, no form object, no answers.
FormIdle ==
    /\ questions = <<>>
    /\ form_fields = None
    /\ form_data = None
    /\ cleaned_data = None
    /\ answers = <<>>

\* The mail and form state of the specifications that do not use it.
MailIdle ==
    /\ applications = <<>>
    /\ event_email = None
    /\ email = NewEmail("accepted")
    /\ deliveries = <<>>
    /\ raised = FALSE
    /\ op = "init"
    /\ FormIdle

----------------------------------------------------------------------------
(* Form.application_open                                                   *)

\* A datetime is always truthy; only None is falsy.
TruthyTime(t) == t # None

ApplicationOpenInclusive(from, until, t) ==
    IF TruthyTime(from) /\ TruthyTime(until)
    THEN from[1] <= t /\ t < until[1]
    ELSE TRUE

ApplicationOpenAt(from, until, t) ==
    IF TruthyTime(from) /\ TruthyTime(until)
    THEN from[1] < t /\ t < until[1]
    ELSE TRUE

application_open == ApplicationOpenAt(open_from, open_until, now)

InitOpen ==
    /\ open_from = None
    /\ open_until = None
    /\ now = 1
    /\ scores = <<>>
    /\ MailIdle

\* An organizer edits the window of the Form (either end, to a time or None).
SetOpenFrom ==
    /\ \E t \in {None} \cup {Some(x) : x \in Times} : open_from' = t
    /\ UNCHANGED <<open_until, now, scores, mailVars, formVars>>

SetOpenUntil ==
    /\ \E t \in {None} \cup {Some(x) : x \in Times} : open_until' = t
    /\ UNCHANGED <<open_from, now, scores, mailVars, formVars>>

\* Time passes.
Tick ==
    /\ now < MaxTime
    /\ now' = now + 1
    /\ UNCHANGED <<open_from, open_until, scores, mailVars, formVars>>

NextOpen == SetOpenFrom \/ SetOpenUntil \/ Tick

SpecOpen == InitOpen /\ [][NextOpen]_vars

----------------------------------------------------------------------------
(* Application.average_score, variance, stdev                              *)
(*                                                                         *)
(* Python's floats are modelled by exact rationals <<numerator,            *)
(* denominator>> in lowest terms with a positive denominator; the square   *)
(* root of stdev() is taken in fixed point, to ScoreScale-ths.             *)

MinScore == 1
MaxScore == 5
ScoreScale == 100

ScoreValues == {None} \cup {Some(x) : x \in MinScore..MaxScore}

Abs(i) == IF i < 0 THEN -i ELSE i

RECURSIVE GCD(_, _)
GCD(a, b) == IF b = 0 THEN a ELSE GCD(b, a % b)

RatNorm(n, d) ==
    LET g == GCD(Abs(n), d) IN
    IF g = 0 THEN <<0, 1>> ELSE <<n \div g, d \div g>>

RatOfInt(i) == <<i, 1>>
Zero == RatOfInt(0)
RatAdd(a, b) == RatNorm(a[1] * b[2] + b[1] * a[2], a[2] * b[2])
RatSub(a, b) == RatNorm(a[1] * b[2] - b[1] * a[2], a[2] * b[2])
RatMul(a, b) == RatNorm(a[1] * b[1], a[2] * b[2])
RatDivInt(a, k) == RatNorm(a[1], a[2] * k)
RatLess(a, b) == a[1] * b[2] < b[1] * a[2]

\* sum(...) over a list of rationals
RECURSIVE RatSum(_)
RatSum(seq) ==
    IF seq = <<>> THEN Zero ELSE RatAdd(seq[1], RatSum(Tail(seq)))

\* A score is truthy when it is neither None nor 0.
TruthyScore(s) == s # None /\ s[1] # 0

\* [s.score for s in self.scores.all() if s.score], rows in user order
RECURSIVE ScoreList(_, _)
ScoreList(sc, users) ==
    IF users = {} THEN <<>>
    ELSE LET u == CHOOSE x \in users : \A y \in users : x <= y
             rest == ScoreList(sc, users \ {u})
         IN  IF TruthyScore(sc[u])
             THEN <<RatOfInt(sc[u][1])>> \o rest
             ELSE rest

ScoreData == ScoreList(scores, DOMAIN scores)

average_score ==
    LET data == ScoreData IN
    IF data = <<>>
    THEN None
    ELSE Some(RatDivInt(RatSum(data), Len(data)))

\* The sum of squared deviations with the second term taken over the raw
\* values instead of the deviations.
SumSquareDeviationsRaw(data) ==
    LET n == Len(data)
        c == RatDivInt(RatSum(data), n)
        dev == [i \in 1..n |-> RatSub(data[i], c)]
        ss == RatSum([i \in 1..n |-> RatMul(dev[i], dev[i])])
        s1 == RatSum(data)
    IN  RatSub(ss, RatDivInt(RatMul(s1, s1), n))

\* ss = sum((x-c)**2 for x in data); ss -= sum((x-c) for x in data)**2/len(data)
SumSquareDeviations(data) ==
    LET n == Len(data)
        c == RatDivInt(RatSum(data), n)
        dev == [i \in 1..n |-> RatSub(data[i], c)]
        ss == RatSum([i \in 1..n |-> RatMul(dev[i], dev[i])])
        s1 == RatSum(dev)
    IN  RatSub(ss, RatDivInt(RatMul(s1, s1), n))

\* variance(): a value, or the AssertionError of its assert statement.
variance ==
    LET data == ScoreData
        n == Len(data)
    IN  IF n = 0 THEN [raised |-> FALSE, value |-> Zero]
        ELSE IF n < 2 THEN [raised |-> FALSE, value |-> Zero]
        ELSE LET ss == SumSquareDeviations(data) IN
             IF RatLess(ss, Zero)
             THEN [raised |-> TRUE, value |-> ss]
             ELSE [raised |-> FALSE, value |-> RatDivInt(ss, n - 1)]

\* The largest r in lo..hi with r * r <= v.
RECURSIVE ISqrt(_, _, _)
ISqrt(v, lo, hi) ==
    IF lo >= hi THEN lo
    ELSE LET mid == (lo + hi + 1) \div 2 IN
         IF mid * mid <= v THEN ISqrt(v, mid, hi) ELSE ISqrt(v, lo, mid - 1)

\* x ** 0.5 for a rational x >= 0, rounded down to ScoreScale-ths.
RatSqrt(x) ==
    LET scaled == (x[1] * ScoreScale * ScoreScale) \div x[2] IN
    RatNorm(ISqrt(scaled, 0, MaxScore * ScoreScale), ScoreScale)

\* stdev(): self.variance() ** 0.5
stdev ==
    LET v == variance IN
    IF v.raised THEN v ELSE [raised |-> FALSE, value |-> RatSqrt(v.value)]

InitScore ==
    /\ scores = <<>>
    /\ open_from = None
    /\ open_until = None
    /\ now = 1
    /\ MailIdle

\* A coach scores the Application for the first time: at most one Score per
\* (user, application).
AddScore ==
    /\ \E u \in Users \ DOMAIN scores : \E v \in ScoreValues :
           scores' = (u :> v) @@ scores
    /\ UNCHANGED <<open_from, open_until, now, mailVars, formVars>>

\* A coach edits the Score they gave.
ChangeScore ==
    /\ \E u \in DOMAIN scores : \E v \in ScoreValues :
           scores' = [scores EXCEPT ![u] = v]
    /\ UNCHANGED <<open_from, open_until, now, mailVars, formVars>>

NextScore == AddScore \/ ChangeScore

SpecScore == InitScore /\ [][NextScore]_vars

----------------------------------------------------------------------------
(* Email.send                                                              *)

MaxApps == 3

Addresses == {"ann@x.io", "bea@x.io"}
\* Application.email: None (never set), "" (an empty answer) or an address.
ApplicationEmails == {None, Some("")} \cup {Some(a) : a \in Addresses}
EventEmails == {None, Some("rome@team.org")}

\* The Email goes to the accepted applicants; the applications of its form
\* are in that state or in the state they are created in.
RecipientsGroup == "accepted"
MailStates == {"submitted", RecipientsGroup}

\* The rows the Application table is drawn from: the applications of the
\* Email's form with every kind of email, and applications of another form.
ApplicationRows ==
    [form : {EmailForm}, state : MailStates, email : ApplicationEmails,
     newsletter_optin : {FALSE}]
    \cup [form : {OtherForm}, state : {RecipientsGroup}, email : {Some("ann@x.io")},
          newsletter_optin : {TRUE}]

\* ', '.join(list)
RECURSIVE Join(_)
Join(list) ==
    IF list = <<>> THEN ""
    ELSE IF Len(list) = 1 THEN list[1]
    ELSE list[1] \o ", " \o Join(Tail(list))

\* Application.objects.filter(form=self.form, state=self.recipients_group):
\* the primary keys of the matching rows, in primary-key order.
RECURSIVE FilterRecipients(_, _, _)
FilterRecipients(apps, mail, i) ==
    IF i > Len(apps) THEN <<>>
    ELSE IF apps[i].form = mail.form /\ apps[i].state = mail.recipients_group
         THEN <<i>> \o FilterRecipients(apps, mail, i + 1)
         ELSE FilterRecipients(apps, mail, i + 1)

Recipients(apps, mail) == FilterRecipients(apps, mail, 1)

\* A count of the recipients that have an email address only.
CountWithEmail(apps, mail) ==
    Cardinality({i \in 1..Len(apps) :
        /\ apps[i].form = mail.form
        /\ apps[i].state = mail.recipients_group
        /\ TruthyStr(apps[i].email)})

\* recipients.count()
CountRecipients(apps, mail) == Len(Recipients(apps, mail))

\* self.form.page.event.email or '{}@djangogirls.org'.format(self.form.page.url)
ResolveSender(ev) ==
    IF TruthyStr(ev) THEN ev[1] ELSE PageUrl \o "@djangogirls.org"

\* "{} <{}>".format(title, address)
FormatSender(address) == PageTitle \o " <" \o address \o ">"

\* The state of one run of the loop of send(): the two local lists, the
\* transport's log, and whether an exception has left the loop.
NewRun == [successfuly_sent |-> <<>>, failed_to_sent |-> <<>>,
           deliveries |-> <<>>, raised |-> FALSE]

\* The loop body with a delivery error left uncaught.
SendOneUncaught(run, recipient, sender, ok) ==
    IF ~TruthyStr(recipient.email) THEN run
    ELSE LET to == recipient.email[1]
             log == Append(run.deliveries, [to |-> to, sender |-> sender, ok |-> ok])
         IN  IF ok
             THEN [run EXCEPT !.deliveries = log,
                              !.successfuly_sent = Append(@, to)]
             ELSE [run EXCEPT !.deliveries = log, !.raised = TRUE]

\* The body of the loop for one recipient: one message when the recipient has
\* an email, logged as sent or, on any exception of msg.send(), as failed.
SendOne(run, recipient, sender, ok) ==
    IF ~TruthyStr(recipient.email) THEN run
    ELSE LET to == recipient.email[1]
             log == Append(run.deliveries, [to |-> to, sender |-> sender, ok |-> ok])
         IN  IF ok
             THEN [run EXCEPT !.deliveries = log,
                              !.successfuly_sent = Append(@, to)]
             ELSE [run EXCEPT !.deliveries = log,
                              !.failed_to_sent = Append(@, to)]

\* for recipient in recipients: the transport answers the k-th msg.send()
\* of the run with outcomes[k]. An exception leaving the body ends the loop.
RECURSIVE SendLoop(_, _, _, _, _)
SendLoop(run, apps, pks, sender, outcomes) ==
    IF pks = <<>> \/ run.raised THEN run
    ELSE SendLoop(SendOne(run, apps[pks[1]], sender,
                          outcomes[Len(run.deliveries) + 1]),
                  apps, Tail(pks), sender, outcomes)

\* send() behind a guard that skips an Email already sent.
SendRunGuarded(mail, apps, ev, t, outcomes) ==
    IF mail.sent # None
    THEN [email |-> mail, deliveries |-> <<>>, raised |-> FALSE]
    ELSE LET pks == Recipients(apps, mail)
             started == [mail EXCEPT !.number_of_recipients = CountRecipients(apps, mail),
                                     !.sent_from = ResolveSender(ev)]
             run == SendLoop(NewRun, apps, pks, FormatSender(started.sent_from), outcomes)
         IN  [email |-> [started EXCEPT !.sent = Some(t),
                             !.successfuly_sent = Some(Join(run.successfuly_sent)),
                             !.failed_to_sent = Some(Join(run.failed_to_sent))],
              deliveries |-> run.deliveries, raised |-> FALSE]

\* send(): the Email afterwards, the transport's log, and whether send()
\* raised. The attributes set before the loop stay set when the loop raises;
\* the ones after it are then never reached.
SendRun(mail, apps, ev, t, outcomes) ==
    LET pks == Recipients(apps, mail)
        started == [mail EXCEPT !.number_of_recipients = CountRecipients(apps, mail),
                                !.sent_from = ResolveSender(ev)]
        run == SendLoop(NewRun, apps, pks, FormatSender(started.sent_from), outcomes)
    IN  IF run.raised
        THEN [email |-> started, deliveries |-> run.deliveries, raised |-> TRUE]
        ELSE [email |-> [started EXCEPT !.sent = Some(t),
                             !.successfuly_sent = Some(Join(run.successfuly_sent)),
                             !.failed_to_sent = Some(Join(run.failed_to_sent))],
              deliveries |-> run.deliveries, raised |-> FALSE]

RECURSIVE SeqsUpTo(_, _)
SeqsUpTo(S, n) ==
    IF n = 0 THEN {<<>>}
    ELSE LET shorter == SeqsUpTo(S, n - 1) IN
         shorter \cup {Append(q, x) : q \in {r \in shorter : Len(r) = n - 1}, x \in S}

InitMail ==
    /\ applications \in SeqsUpTo(ApplicationRows, MaxApps)
    /\ event_email \in EventEmails
    /\ email = NewEmail(RecipientsGroup)
    /\ deliveries = <<>>
    /\ raised = FALSE
    /\ op = "init"
    /\ FormIdle
    /\ now = 1
    /\ open_from = None
    /\ open_until = None
    /\ scores = <<>>

\* How many msg.send() calls a run of send() can make.
Sendable(apps, mail) ==
    Cardinality({i \in 1..Len(apps) :
        /\ apps[i].form = mail.form
        /\ apps[i].state = mail.recipients_group
        /\ TruthyStr(apps[i].email)})

\* send() that also stores the resolved sender on the event.
SendAndSaveEvent ==
    /\ \E outcomes \in [1..Sendable(applications, email) -> BOOLEAN] :
         LET r == SendRun(email, applications, event_email, now, outcomes) IN
         /\ email' = r.email
         /\ deliveries' = r.deliveries
         /\ raised' = r.raised
         /\ event_email' = Some(r.email.sent_from)
    /\ op' = IF email.sent # None THEN "resend" ELSE "send"
    /\ UNCHANGED <<applications, now, openVars, scores, formVars>>

\* Email.send(); the transport answers each msg.send() as it likes.
Send ==
    /\ \E outcomes \in [1..Sendable(applications, email) -> BOOLEAN] :
         LET r == SendRun(email, applications, event_email, now, outcomes) IN
         /\ email' = r.email
         /\ deliveries' = r.deliveries
         /\ raised' = r.raised
    /\ op' = IF email.sent # None THEN "resend" ELSE "send"
    /\ UNCHANGED <<applications, event_email, now, openVars, scores, formVars>>

\* An organizer of the event moves one of its applications to another state.
ChangeState ==
    /\ \E i \in {k \in 1..Len(applications) : applications[k].form = EmailForm} :
         \E st \in MailStates \ {applications[i].state} :
           applications' = [applications EXCEPT ![i].state = st]
    /\ op' = "change_state"
    /\ UNCHANGED <<event_email, email, deliveries, raised, now, openVars, scores, formVars>>

NextMail == Send \/ ChangeState

SpecMail == InitMail /\ [][NextMail]_vars

----------------------------------------------------------------------------
(* Properties of Email.send, stated on the Application table and on the    *)
(* transport's log rather than on the loop of send().                      *)

\* The applications send() has to write to: those of the Email's form in the
\* Email's recipients_group that have a non-empty email.
Eligible(apps, mail) ==
    {i \in 1..Len(apps) :
        /\ apps[i].form = mail.form
        /\ apps[i].state = mail.recipients_group
        /\ apps[i].email # None
        /\ apps[i].email # Some("")}

\* All applications of the Email's form in the Email's recipients_group.
Matching(apps, mail) ==
    {i \in 1..Len(apps) :
        apps[i].form = mail.form /\ apps[i].state = mail.recipients_group}

RECURSIVE Ascending(_)
Ascending(S) ==
    IF S = {} THEN <<>>
    ELSE LET m == CHOOSE x \in S : \A y \in S : x <= y IN
         <<m>> \o Ascending(S \ {m})

\* The addresses of the attempts of a log with the given outcome, in order.
AddressesWith(log, ok) ==
    LET hits == SelectSeq(log, LAMBDA d : d.ok = ok) IN
    [k \in 1..Len(hits) |-> hits[k].to]

SendJustRan == op \in {"send", "resend"}

\* The log holds one attempt per eligible application, in order, each to
\* that application's address.
OneAttemptEach(log, apps, mail) ==
    LET pks == Ascending(Eligible(apps, mail)) IN
    /\ Len(log) = Len(pks)
    /\ \A k \in 1..Len(pks) : log[k].to = apps[pks[k]].email[1]

\* The persisted lists are the log's addresses split by outcome.
ListsSplitLog(mail, log) ==
    /\ mail.successfuly_sent = Some(Join(AddressesWith(log, TRUE)))
    /\ mail.failed_to_sent = Some(Join(AddressesWith(log, FALSE)))

\* C1: after send(), every application of the Email's form in the
\* recipients_group with a non-empty email got exactly one delivery attempt
\* whatever the outcomes of the earlier attempts, send() did not raise, and
\* the success and failure lists are the attempted addresses whose attempt
\* succeeded, respectively failed.
C1_FailureIsolation ==
    SendJustRan =>
        /\ raised = FALSE
        /\ OneAttemptEach(deliveries, applications, email)
        /\ ListsSplitLog(email, deliveries)
        /\ Len(AddressesWith(deliveries, TRUE)) + Len(AddressesWith(deliveries, FALSE))
             = Cardinality(Eligible(applications, email))

\* Three matching applications, one without an email: two attempts, the
\* first failed, the second still made and successful.
C1_Witness ==
    /\ op = "send"
    /\ Cardinality(Matching(applications, email)) = 3
    /\ Len(deliveries) = 2
    /\ ~deliveries[1].ok /\ deliveries[2].ok
    /\ email.failed_to_sent = Some("ann@x.io")
    /\ email.successfuly_sent = Some("bea@x.io")
    /\ email.number_of_recipients = 3

\* C2: after send(), number_of_recipients is the number of all applications
\* of the Email's form in the recipients_group, with or without an email, so
\* it is at least the number of addresses in the two lists, and the sent
\* timestamp is set even when no message was attempted.
C2_RecipientCount ==
    SendJustRan =>
        /\ email.number_of_recipients = Cardinality(Matching(applications, email))
        /\ email.number_of_recipients >=
             Len(AddressesWith(deliveries, TRUE)) + Len(AddressesWith(deliveries, FALSE))
        /\ email.sent # None

\* Recipients without any email: counted, nothing attempted, still marked sent.
C2_Witness ==
    /\ op = "send"
    /\ deliveries = <<>>
    /\ email.number_of_recipients = 2
    /\ email.sent # None
    /\ email.successfuly_sent = Some("")

\* C3: send() on an Email whose sent timestamp is already set runs again:
\* every eligible application gets an attempt again, and the lists and the
\* count afterwards are those of this run alone.
C3_ResendOverwrites ==
    [][op' = "resend" =>
          /\ email.sent # None
          /\ raised' = FALSE
          /\ OneAttemptEach(deliveries', applications', email')
          /\ ListsSplitLog(email', deliveries')
          /\ email'.number_of_recipients = Cardinality(Matching(applications', email'))
      ]_vars

\* A second run whose only attempt failed: nothing of a first run is left in
\* the success list.
C3_Witness ==
    /\ op = "resend"
    /\ Len(deliveries) = 1
    /\ email.successfuly_sent = Some("")
    /\ email.failed_to_sent = Some("ann@x.io")

\* C9: send() stores as sent_from the event's email, or
\* '<page url>@djangogirls.org' when the event has none, and changes neither
\* the event's email nor any Application.
C9_SendFrame ==
    [][op' \in {"send", "resend"} =>
          /\ email'.sent_from =
                IF event_email # None /\ event_email # Some("")
                THEN event_email[1]
                ELSE "rome@djangogirls.org"
          /\ event_email' = event_email
          /\ applications' = applications
      ]_vars

\* A send for an event without an email: the derived sender is on the Email
\* and the event still has none.
C9_Witness ==
    /\ op = "send"
    /\ event_email = None
    /\ email.sent_from = "rome@djangogirls.org"
    /\ deliveries # <<>>
    /\ deliveries[1].sender = "Django Girls Rome <rome@djangogirls.org>"

----------------------------------------------------------------------------
(* Properties of Form.application_open.                                    *)

\* C6 as stated: application_open is true iff no window is set or
\* open_from <= now < open_until, the start of the window included.
C6_HalfOpenWindow ==
    application_open <=>
        \/ open_from = None
        \/ open_until = None
        \/ (open_from[1] <= now /\ now < open_until[1])

\* C6, amended: application_open is true iff open_from or open_until is not
\* set, or open_from < now < open_until, both ends of the window excluded.
C6_StrictWindow ==
    application_open <=>
        \/ open_from = None
        \/ open_until = None
        \/ (open_from[1] < now /\ now < open_until[1])

\* The first instant of a window that is still running: closed.
C6_Witness ==
    /\ open_from = Some(now)
    /\ open_until # None
    /\ now < open_until[1]
    /\ ~application_open

----------------------------------------------------------------------------
(* Properties of the score statistics.                                     *)

RECURSIVE SumScores(_, _)
SumScores(sc, S) ==
    IF S = {} THEN 0
    ELSE LET u == CHOOSE x \in S : TRUE IN sc[u][1] + SumScores(sc, S \ {u})

\* C8: over the scores that carry a value, variance() is 0 for fewer than
\* two of them and never negative (its assertion never fails), stdev() is 0
\* for a single score, and average_score is None when there is none and
\* their arithmetic mean otherwise.
C8_ScoreStatistics ==
    LET valued == {u \in DOMAIN scores : scores[u] # None}
        n == Cardinality(valued)
    IN  /\ ~variance.raised
        /\ n < 2 => variance.value = Zero
        /\ ~RatLess(variance.value, Zero)
        /\ ~stdev.raised
        /\ n = 1 => stdev.value = Zero
        /\ (n = 0) <=> (average_score = None)
        /\ n > 0 =>
             average_score[1][1] * n = SumScores(scores, valued) * average_score[1][2]

\* Five rows, one without a value, the others 2, 3, 4, 5: mean 7/2,
\* variance 5/3, stdev 1.29.
C8_Witness ==
    /\ DOMAIN scores = 1..5
    /\ scores[1] = None
    /\ \A u \in 2..5 : scores[u] = Some(u)
    /\ average_score = Some(<<7, 2>>)
    /\ variance = [raised |-> FALSE, value |-> <<5, 3>>]
    /\ stdev.value = <<129, 100>>

----------------------------------------------------------------------------
(* ApplicationForm.__init__                                                *)

MaxQuestions == 2

QUESTION_TYPES == {"paragraph", "text", "choices", "email"}

\* Question.choices is kept as the list that choices.split(';') yields.
Colours == <<"red", "blue">>

\* Every combination of type and flags of a Question of the form.
QuestionRows ==
    [form : {EmailForm}, question_type : QUESTION_TYPES, is_required : BOOLEAN,
     choices : {None, Some(Colours)}, is_multiple_choice : BOOLEAN]

\* 'question_{}'.format(question.pk)
FieldName(pk) == "question_" \o ToString(pk)

NewsletterField ==
    [kind |-> "ChoiceField", required |-> TRUE, choices |-> <<"yes", "no">>,
     widget |-> "RadioSelect"]

\* The loop body without the branch for the email type.
BuildFieldNoEmail(question) ==
    LET widget == IF question.question_type = "text" THEN "Textarea" ELSE "default"
    IN
    IF question.question_type = "choices" /\ question.choices = None
    THEN [raised |-> TRUE, field |-> None]
    ELSE IF question.question_type \in {"paragraph", "text"}
    THEN [raised |-> FALSE,
          field |-> Some([kind |-> "CharField", required |-> question.is_required,
                          choices |-> <<>>, widget |-> widget])]
    ELSE IF question.question_type = "choices"
    THEN IF question.is_multiple_choice
         THEN [raised |-> FALSE,
               field |-> Some([kind |-> "MultipleChoiceField",
                               required |-> question.is_required,
                               choices |-> question.choices[1],
                               widget |-> "CheckboxSelectMultiple"])]
         ELSE [raised |-> FALSE,
               field |-> Some([kind |-> "ChoiceField",
                               required |-> question.is_required,
                               choices |-> question.choices[1],
                               widget |-> "RadioSelect"])]
    ELSE [raised |-> FALSE, field |-> None]

\* The body of the loop over the questions: the field the question gets, if
\* any; question.choices.split raises for a choices question whose choices
\* are None.
BuildField(question) ==
    LET widget == IF question.question_type = "text" THEN "Textarea" ELSE "default"
    IN
    IF question.question_type = "choices" /\ question.choices = None
    THEN [raised |-> TRUE, field |-> None]
    ELSE IF question.question_type \in {"paragraph", "text"}
    THEN [raised |-> FALSE,
          field |-> Some([kind |-> "CharField", required |-> question.is_required,
                          choices |-> <<>>, widget |-> widget])]
    ELSE IF question.question_type = "choices"
    THEN IF question.is_multiple_choice
         THEN [raised |-> FALSE,
               field |-> Some([kind |-> "MultipleChoiceField",
                               required |-> question.is_required,
                               choices |-> question.choices[1],
                               widget |-> "CheckboxSelectMultiple"])]
         ELSE [raised |-> FALSE,
               field |-> Some([kind |-> "ChoiceField",
                               required |-> question.is_required,
                               choices |-> question.choices[1],
                               widget |-> "RadioSelect"])]
    ELSE IF question.question_type = "email"
    THEN [raised |-> FALSE,
          field |-> Some([kind |-> "EmailField", required |-> question.is_required,
                          choices |-> <<>>, widget |-> widget])]
    ELSE [raised |-> FALSE, field |-> None]

\* for question in questions: ...; the fields built so far are in acc.
RECURSIVE BuildLoop(_, _, _)
BuildLoop(qs, pk, acc) ==
    IF pk > Len(qs) \/ acc.raised THEN acc
    ELSE LET b == BuildField(qs[pk]) IN
         IF b.raised THEN [acc EXCEPT !.raised = TRUE]
         ELSE IF b.field = None THEN BuildLoop(qs, pk + 1, acc)
         ELSE BuildLoop(qs, pk + 1,
                        [acc EXCEPT !.fields = (FieldName(pk) :> b.field[1]) @@ @])

\* __init__: the fields of the form, or the exception of the loop.
BuildFields(qs) ==
    LET looped == BuildLoop(qs, 1, [raised |-> FALSE, fields |-> <<>>]) IN
    IF looped.raised THEN looped
    ELSE [looped EXCEPT !.fields = ("newsletter_optin" :> NewsletterField) @@ @]

InitBuild ==
    /\ questions \in SeqsUpTo(QuestionRows, MaxQuestions)
    /\ form_fields = None
    /\ form_data = None
    /\ cleaned_data = None
    /\ answers = <<>>
    /\ applications = <<>>
    /\ event_email = None
    /\ email = NewEmail("accepted")
    /\ deliveries = <<>>
    /\ raised = FALSE
    /\ op = "init"
    /\ now = 1
    /\ open_from = None
    /\ open_until = None
    /\ scores = <<>>

\* The page with the empty form: ApplicationForm(questions=...), unbound.
Render ==
    /\ LET built == BuildFields(questions) IN
       /\ raised' = built.raised
       /\ form_fields' = IF built.raised THEN None ELSE Some(built.fields)
    /\ form_data' = None
    /\ cleaned_data' = None
    /\ op' = "render"
    /\ UNCHANGED <<questions, answers, applications, event_email, email, deliveries,
                   now, openVars, scores>>

NextBuild == Render

SpecBuild == InitBuild /\ [][NextBuild]_vars

\* C7: a form that was built has one field per question and the required
\* newsletter_optin field, |questions| + 1 fields in all, whatever the
\* questions' types and flags.
C7_FieldCount ==
    form_fields # None =>
        /\ Cardinality(DOMAIN form_fields[1]) = Len(questions) + 1
        /\ \A pk \in 1..Len(questions) : FieldName(pk) \in DOMAIN form_fields[1]
        /\ "newsletter_optin" \in DOMAIN form_fields[1]
        /\ form_fields[1]["newsletter_optin"].required

\* An optional email question and a multiple-choice question: three fields.
C7_Witness ==
    /\ form_fields # None
    /\ Len(questions) = 2
    /\ questions[1].question_type = "email" /\ ~questions[1].is_required
    /\ questions[2].question_type = "choices" /\ questions[2].is_multiple_choice
    /\ DOMAIN form_fields[1] = {"question_1", "question_2", "newsletter_optin"}
    /\ form_fields[1]["question_2"].kind = "MultipleChoiceField"

----------------------------------------------------------------------------
(* Validation of a bound ApplicationForm, and ApplicationForm.save         *)

MaxSaves == 2

\* The questions of the forms that are submitted: each field class, required
\* and optional.
SubmittedQuestionRows ==
    {[form |-> EmailForm, question_type |-> "paragraph", is_required |-> TRUE,
      choices |-> None, is_multiple_choice |-> FALSE],
     [form |-> EmailForm, question_type |-> "email", is_required |-> TRUE,
      choices |-> None, is_multiple_choice |-> FALSE],
     [form |-> EmailForm, question_type |-> "email", is_required |-> FALSE,
      choices |-> None, is_multiple_choice |-> FALSE],
     [form |-> EmailForm, question_type |-> "choices", is_required |-> TRUE,
      choices |-> Some(Colours), is_multiple_choice |-> TRUE],
     [form |-> EmailForm, question_type |-> "choices", is_required |-> FALSE,
      choices |-> Some(Colours), is_multiple_choice |-> FALSE]}

\* What a browser may post for a field: the list of the values under its
\* name, empty when the name is missing.
RawValues(field) ==
    IF field.kind = "CharField" THEN {<<>>, <<"hello">>}
    ELSE IF field.kind = "EmailField" THEN {<<>>, <<"ann@x.io">>, <<"not-an-email">>}
    ELSE IF field.kind = "MultipleChoiceField" THEN {<<>>, <<"red", "blue">>, <<"green">>}
    ELSE IF field = NewsletterField THEN {<<>>, <<"yes">>, <<"no">>}
    ELSE {<<>>, <<"red">>, <<"green">>}

AllRawValues ==
    {<<>>, <<"hello">>, <<"ann@x.io">>, <<"not-an-email">>, <<"red", "blue">>,
     <<"green">>, <<"yes">>, <<"no">>, <<"red">>}

\* The addresses an EmailField accepts.
WellFormed(address) == address \in Addresses

InList(x, list) == \E k \in 1..Len(list) : list[k] = x

\* A cleaned value: a string, or a list of strings.
Scalar(str) == [is_list |-> FALSE, items |-> <<str>>]
List(items) == [is_list |-> TRUE, items |-> items]

\* Field.clean(value) of the four field classes: the cleaned value, or a
\* ValidationError (ok = FALSE).
CleanField(field, raw) ==
    IF field.kind = "MultipleChoiceField"
    THEN IF raw = <<>>
         THEN [ok |-> ~field.required, value |-> List(<<>>)]
         ELSE [ok |-> \A k \in 1..Len(raw) : InList(raw[k], field.choices),
               value |-> List(raw)]
    ELSE LET str == IF raw = <<>> THEN "" ELSE raw[Len(raw)] IN
         IF str = ""
         THEN [ok |-> ~field.required, value |-> Scalar("")]
         ELSE IF field.kind = "EmailField"
         THEN [ok |-> WellFormed(str), value |-> Scalar(str)]
         ELSE IF field.kind = "ChoiceField"
         THEN [ok |-> InList(str, field.choices), value |-> Scalar(str)]
         ELSE [ok |-> TRUE, value |-> Scalar(str)]

\* full_clean(): cleaned_data keeps the fields that validate.
FullClean(fields, data) ==
    LET valid == {n \in DOMAIN fields : CleanField(fields[n], data[n]).ok} IN
    [n \in valid |-> CleanField(fields[n], data[n]).value]

\* value = ', '.join(value) if type(value) == list else value
Flatten(value) == IF value.is_list THEN Join(value.items) ELSE value.items[1]

\* Question.objects.get(pk=pk, form=form) for pk = name.replace('question_', ''):
\* the pk of the question, or None for DoesNotExist and ValueError.
GetQuestion(name, qs, form) ==
    LET found == {pk \in 1..Len(qs) : FieldName(pk) = name /\ qs[pk].form = form} IN
    IF found = {} THEN None ELSE Some(CHOOSE pk \in found : TRUE)

\* Application.objects.create(form=form)
NewApplication(form) ==
    [form |-> form, state |-> "submitted", email |-> None, newsletter_optin |-> FALSE]

\* The confirmation with the delivery error left uncaught.
ConfirmUncaught(app_email, ev, ok) ==
    IF TruthyStr(app_email)
    THEN [deliveries |-> <<[to |-> app_email[1], sender |-> FormatSender(ev[1]),
                            ok |-> ok]>>,
          raised |-> ~ok]
    ELSE [deliveries |-> <<>>, raised |-> FALSE]

\* The confirmation sent whenever an email question was answered at all.
ConfirmAnyAnswer(app_email, ev, ok) ==
    IF app_email # None
    THEN [deliveries |-> <<[to |-> app_email[1], sender |-> FormatSender(ev[1]),
                            ok |-> ok]>>,
          raised |-> FALSE]
    ELSE [deliveries |-> <<>>, raised |-> FALSE]

\* if application.email: one message to it, any exception of msg.send() passed over.
Confirm(app_email, ev, ok) ==
    IF TruthyStr(app_email)
    THEN [deliveries |-> <<[to |-> app_email[1], sender |-> FormatSender(ev[1]),
                            ok |-> ok]>>,
          raised |-> FALSE]
    ELSE [deliveries |-> <<>>, raised |-> FALSE]

\* The event email after save(): derived from the page url when there is none.
EnsureEventEmail(ev) ==
    IF ~TruthyStr(ev) THEN Some(PageUrl \o "@djangogirls.org") ELSE ev

\* The questions the names of cleaned_data resolve to.
Answered(cd, qs, form) ==
    {pk \in 1..Len(qs) :
        FieldName(pk) \in DOMAIN cd /\ GetQuestion(FieldName(pk), qs, form) = Some(pk)}

\* The answers save() creates for an application.
AnswerRows(cd, qs, form) ==
    [pk \in Answered(cd, qs, form) |-> Flatten(cd[FieldName(pk)])]

\* application.newsletter_optin after the loop of save().
OptIn(cd) ==
    IF "newsletter_optin" \in DOMAIN cd
    THEN cd["newsletter_optin"] = Scalar("yes")
    ELSE FALSE

InitForm ==
    /\ questions \in SeqsUpTo(SubmittedQuestionRows, MaxQuestions)
    /\ event_email \in EventEmails
    /\ form_fields = None
    /\ form_data = None
    /\ cleaned_data = None
    /\ answers = <<>>
    /\ applications = <<>>
    /\ email = NewEmail("accepted")
    /\ deliveries = <<>>
    /\ raised = FALSE
    /\ op = "init"
    /\ now = 1
    /\ open_from = None
    /\ open_until = None
    /\ scores = <<>>

\* A submission arrives: ApplicationForm(data, questions=...), bound.
Submit ==
    /\ form_fields = None
    /\ LET built == BuildFields(questions) IN
       IF built.raised
       THEN /\ raised' = TRUE
            /\ UNCHANGED <<form_fields, form_data>>
       ELSE /\ raised' = FALSE
            /\ form_fields' = Some(built.fields)
            /\ \E data \in [DOMAIN built.fields -> AllRawValues] :
                 /\ \A n \in DOMAIN built.fields : data[n] \in RawValues(built.fields[n])
                 /\ form_data' = Some(data)
    /\ cleaned_data' = None
    /\ deliveries' = <<>>
    /\ op' = "submit"
    /\ UNCHANGED <<questions, answers, applications, event_email, email,
                   now, openVars, scores>>

\* is_valid(): a bound form is cleaned; an unbound one is left as it is.
IsValid ==
    /\ form_fields # None
    /\ cleaned_data' = IF form_data = None THEN cleaned_data
                       ELSE Some(FullClean(form_fields[1], form_data[1]))
    /\ raised' = FALSE
    /\ deliveries' = <<>>
    /\ op' = "is_valid"
    /\ UNCHANGED <<questions, form_fields, form_data, answers, applications,
                   event_email, email, now, openVars, scores>>

\* save(form=form). The Application is created first; reading cleaned_data
\* raises AttributeError when the form was never cleaned. The names of
\* cleaned_data come in the order of a dict, so with several email questions
\* any of them may be the last one to set application.email.
Save ==
    /\ form_fields # None
    /\ Len(applications) < MaxSaves
    /\ op' = "save"
    /\ IF cleaned_data = None
       THEN /\ applications' = Append(applications, NewApplication(EmailForm))
            /\ answers' = Append(answers, <<>>)
            /\ raised' = TRUE
            /\ deliveries' = <<>>
            /\ UNCHANGED event_email
       ELSE LET cd == cleaned_data[1]
                rows == AnswerRows(cd, questions, EmailForm)
                emails == {pk \in DOMAIN rows : questions[pk].question_type = "email"}
                ev == EnsureEventEmail(event_email)
            IN  \E app_email \in IF emails = {} THEN {None}
                                 ELSE {Some(rows[pk]) : pk \in emails} :
                \E ok \in IF TruthyStr(app_email) THEN BOOLEAN ELSE {TRUE} :
                  LET sent == Confirm(app_email, ev, ok) IN
                  /\ applications' = Append(applications,
                        [NewApplication(EmailForm) EXCEPT
                            !.email = app_email, !.newsletter_optin = OptIn(cd)])
                  /\ answers' = Append(answers, rows)
                  /\ event_email' = ev
                  /\ deliveries' = sent.deliveries
                  /\ raised' = sent.raised
    /\ UNCHANGED <<questions, form_fields, form_data, cleaned_data, email,
                   now, openVars, scores>>

NextForm == Submit \/ IsValid \/ Save

SpecForm == InitForm /\ [][NextForm]_vars

----------------------------------------------------------------------------
(* Properties of ApplicationForm.save.                                     *)

\* The string a single-valued field receives from the posted values.
Posted(raw) == IF raw = <<>> THEN "" ELSE raw[Len(raw)]

\* The submission has no value for some required question.
LacksRequired ==
    /\ form_data # None
    /\ \E pk \in 1..Len(questions) :
         questions[pk].is_required /\ form_data[1][FieldName(pk)] = <<>>

\* C4: for a submission that lacks the value of a required question no
\* Application and no Answer is ever created, whatever is called on the form.
C4_NoRecordForRejected ==
    LacksRequired =>
        /\ applications = <<>>
        /\ \A i \in 1..Len(answers) : DOMAIN answers[i] = {}

\* C5: save() sets Application.email to the value submitted for an email
\* question and then makes exactly one send attempt, to that address; with
\* Application.email not populated (no email question, or an empty answer)
\* it makes none; it never makes more than one.
C5_OneConfirmation ==
    op = "save" =>
        LET app == applications[Len(applications)] IN
        /\ Len(deliveries) <= 1
        /\ (app.email # None /\ app.email # Some("")) =>
               (Len(deliveries) = 1 /\ deliveries[1].to = app.email[1])
        /\ (app.email = None \/ app.email = Some("")) => deliveries = <<>>
        /\ app.email # None =>
               \E pk \in 1..Len(questions) :
                   /\ questions[pk].question_type = "email"
                   /\ Posted(form_data[1][FieldName(pk)]) = app.email[1]
        /\ (cleaned_data # None /\
            \E pk \in 1..Len(questions) :
                /\ questions[pk].question_type = "email"
                /\ FieldName(pk) \in DOMAIN cleaned_data[1]) => app.email # None

\* A valid submission with an address: the address is on the Application and
\* one message went to it.
C5_Witness ==
    /\ op = "save"
    /\ cleaned_data # None
    /\ DOMAIN cleaned_data[1] = DOMAIN form_fields[1]
    /\ applications[Len(applications)].email = Some("ann@x.io")
    /\ Len(deliveries) = 1
    /\ deliveries[1].to = "ann@x.io"

\* C10: when the confirmation send of save() fails, save() still returns
\* normally, and the Application with its email and newsletter_optin, all
\* its Answers and the event email are stored as the cleaned data and the
\* event dictate, with no trace of the failure.
C10_FailureDiscarded ==
    (op = "save" /\ deliveries # <<>> /\ ~deliveries[1].ok) =>
        LET i == Len(applications)
            app == applications[i]
            cd == cleaned_data[1]
            asked == {pk \in 1..Len(questions) : FieldName(pk) \in DOMAIN cd}
        IN  /\ raised = FALSE
            /\ app.form = EmailForm
            /\ app.state = "submitted"
            /\ app.email = Some(deliveries[1].to)
            /\ app.newsletter_optin =
                 ("newsletter_optin" \in DOMAIN cd
                    /\ cd["newsletter_optin"].items = <<"yes">>)
            /\ Len(answers) = i
            /\ DOMAIN answers[i] = asked
            /\ \A pk \in asked :
                 answers[i][pk] =
                    IF cd[FieldName(pk)].is_list
                    THEN Join(cd[FieldName(pk)].items)
                    ELSE cd[FieldName(pk)].items[1]
            /\ event_email \in {Some("rome@team.org"), Some("rome@djangogirls.org")}
            /\ deliveries[1].sender = "Django Girls Rome <" \o event_email[1] \o ">"

\* A failed confirmation for an event without an email, after a valid
\* submission with a multiple-choice answer and newsletter opt-in.
C10_Witness ==
    /\ op = "save"
    /\ deliveries # <<>>
    /\ ~deliveries[1].ok
    /\ raised = FALSE
    /\ event_email = Some("rome@djangogirls.org")
    /\ applications[Len(applications)].newsletter_optin
    /\ \E pk \in DOMAIN answers[Len(answers)] : answers[Len(answers)][pk] = "red, blue"

====
